---- MODULE Spec2Model ----
(***************************************************************************)
(* hostctl: named environments of host entries and the switch of the       *)
(* system hosts file between them.                                         *)
(*                                                                         *)
(* Text is modelled at character level: a string is a sequence of          *)
(* one-character strings, so that to_line, parse_hosts_line, lines and the *)
(* marker search are computed the way the code computes them.              *)
(***************************************************************************)
EXTENDS Integers, Sequences, FiniteSets, TLC

VARIABLES
    config,     \* the persisted Configuration (config.yaml), or the Config under test
    hosts,      \* content of the system hosts file
    backups,    \* the backup files: timestamp -> content
    clock,      \* the wall clock, in seconds (names the backup file)
    pc,         \* position of the running switch command
    local,      \* locals of the running switch command
    result,     \* outcome of the last finished operation
    hist,       \* history of the current/last apply (steps taken, contents seen)
    original    \* the hosts file as it was before hostctl first ran

vars == <<config, hosts, backups, clock, pc, local, result, hist, original>>

----------------------------------------------------------------------------
(* Option<T> *)

None == [some |-> FALSE, val |-> <<>>]
Some(v) == [some |-> TRUE, val |-> v]

Min(S) == CHOOSE x \in S : \A y \in S : x <= y
Max(S) == CHOOSE x \in S : \A y \in S : x >= y

----------------------------------------------------------------------------
(* str primitives of the standard library used by the code *)

\* char::is_whitespace, restricted to the characters the model uses
Whitespace == {" ", "\t", "\r", "\n"}

\* char::is_alphanumeric (Unicode letters and digits), restricted likewise
Alphanumeric ==
    {"a", "b", "c", "d", "e", "f", "g", "h", "i", "j", "k", "l", "m",
     "n", "o", "p", "q", "r", "s", "t", "u", "v", "w", "x", "y", "z",
     "0", "1", "2", "3", "4", "5", "6", "7", "8", "9"}

\* str::trim
trim(s) ==
    LET keep == {i \in 1..Len(s) : s[i] \notin Whitespace}
    IN  IF keep = {} THEN <<>> ELSE SubSeq(s, Min(keep), Max(keep))

\* str::find(char): 1-based position of the first occurrence, 0 for None
find(s, c) ==
    LET at == {i \in 1..Len(s) : s[i] = c}
    IN  IF at = {} THEN 0 ELSE Min(at)

\* str::contains(&str)
contains(s, pat) ==
    \E i \in 1..(Len(s) - Len(pat) + 1) : SubSeq(s, i, i + Len(pat) - 1) = pat

\* str::starts_with / ends_with (char)
starts_with(s, c) == Len(s) > 0 /\ s[1] = c
ends_with(s, c) == Len(s) > 0 /\ s[Len(s)] = c

\* str::split(char): always at least one piece
RECURSIVE split(_, _)
split(s, c) ==
    LET p == find(s, c)
    IN  IF p = 0 THEN <<s>>
        ELSE <<SubSeq(s, 1, p - 1)>> \o split(SubSeq(s, p + 1, Len(s)), c)

\* str::split_whitespace: the non-empty runs of non-whitespace characters
RECURSIVE split_whitespace(_)
split_whitespace(s) ==
    LET keep == {i \in 1..Len(s) : s[i] \notin Whitespace}
    IN  IF keep = {} THEN <<>>
        ELSE LET b   == Min(keep)
                 ws  == {i \in b..Len(s) : s[i] \in Whitespace}
                 e   == IF ws = {} THEN Len(s) + 1 ELSE Min(ws)
             IN  <<SubSeq(s, b, e - 1)>> \o split_whitespace(SubSeq(s, e, Len(s)))

\* str::lines: split at "\n", a "\r" right before the "\n" is dropped too; no
\* final empty line after a trailing "\n"
RECURSIVE lines(_)
lines(s) ==
    IF s = <<>> THEN <<>>
    ELSE LET p == find(s, "\n")
         IN  IF p = 0 THEN <<s>>
             ELSE LET l == SubSeq(s, 1, p - 1)
                  IN  <<IF ends_with(l, "\r") THEN SubSeq(l, 1, Len(l) - 1) ELSE l>>
                      \o lines(SubSeq(s, p + 1, Len(s)))

\* concatenation of a sequence of strings
RECURSIVE concat(_)
concat(ss) == IF ss = <<>> THEN <<>> ELSE Head(ss) \o concat(Tail(ss))

----------------------------------------------------------------------------
(* IP addresses.  An IpAddr value is its family and its segments (4 octets *)
(* or 8 groups of 16 bits); Display and FromStr convert between values and *)
(* text.  Lower-case hex digits only, and no IPv6 text with an embedded    *)
(* dotted quad: no input of the model spells an address that way.          *)

V4(a, b, c, d) == [v |-> 4, segs |-> <<a, b, c, d>>]
V6(segs) == [v |-> 6, segs |-> segs]

Ip1 == V6(<<0, 0, 0, 0, 0, 0, 0, 1>>)            \* ::1
Ip2 == V6(<<0, 0, 0, 0, 0, 0, 0, 2>>)            \* ::2
Ip4 == V4(1, 1, 1, 1)                            \* 1.1.1.1
Ip1Long == <<"0", ":", ":", "1">>                \* the text 0::1, another spelling of ::1

IpAddrs == {Ip1, Ip2, Ip4}

HexDigits == <<"0", "1", "2", "3", "4", "5", "6", "7", "8", "9",
               "a", "b", "c", "d", "e", "f">>

digit_value(c) == (CHOOSE i \in 1..16 : HexDigits[i] = c) - 1

\* the number a text of digits denotes in the radix; -1 when it is empty, longer
\* than max_digits, or has a character that is no digit of the radix
RECURSIVE number_value(_, _)
number_value(s, radix) ==
    IF s = <<>> THEN 0
    ELSE number_value(SubSeq(s, 1, Len(s) - 1), radix) * radix + digit_value(s[Len(s)])

read_number(s, radix, max_digits) ==
    IF /\ Len(s) \in 1..max_digits
       /\ \A i \in 1..Len(s) : \E d \in 1..radix : HexDigits[d] = s[i]
    THEN number_value(s, radix)
    ELSE -1

\* the text of a number in the radix, without leading zeros
RECURSIVE number_text(_, _)
number_text(n, radix) ==
    IF n < radix THEN <<HexDigits[n + 1]>>
    ELSE number_text(n \div radix, radix) \o <<HexDigits[(n % radix) + 1]>>

\* texts joined by a separator character
RECURSIVE join(_, _)
join(ss, c) ==
    IF ss = <<>> THEN <<>>
    ELSE IF Len(ss) = 1 THEN ss[1]
    ELSE ss[1] \o <<c>> \o join(Tail(ss), c)

\* <Ipv4Addr as FromStr>: four decimal octets, 1 to 3 digits each, at most 255,
\* no leading zero
parse_ipv4(tok) ==
    LET parts == split(tok, ".")
        octet(part) == IF Len(part) > 1 /\ part[1] = "0" THEN -1
                       ELSE read_number(part, 10, 3)
    IN  IF /\ Len(parts) = 4
           /\ \A i \in 1..4 : octet(parts[i]) \in 0..255
        THEN Some(V4(octet(parts[1]), octet(parts[2]), octet(parts[3]), octet(parts[4])))
        ELSE None

\* <Ipv6Addr as FromStr>: eight groups of 1 to 4 hex digits, or fewer around
\* one "::" that stands for at least one group of zero
parse_ipv6(tok) ==
    LET dc         == {i \in 1..(Len(tok) - 1) : tok[i] = ":" /\ tok[i + 1] = ":"}
        groups(s)  == IF s = <<>> THEN <<>> ELSE split(s, ":")
        ok(gs)     == \A i \in 1..Len(gs) : read_number(gs[i], 16, 4) >= 0
        values(gs) == [i \in 1..Len(gs) |-> read_number(gs[i], 16, 4)]
    IN  IF dc = {}
        THEN IF Len(groups(tok)) = 8 /\ ok(groups(tok))
             THEN Some(V6(values(groups(tok))))
             ELSE None
        ELSE IF Cardinality(dc) > 1 THEN None
        ELSE LET p    == Min(dc)
                 head == groups(SubSeq(tok, 1, p - 1))
                 tail == groups(SubSeq(tok, p + 2, Len(tok)))
             IN  IF ok(head) /\ ok(tail) /\ Len(head) + Len(tail) <= 7
                 THEN Some(V6(values(head)
                              \o [i \in 1..(8 - Len(head) - Len(tail)) |-> 0]
                              \o values(tail)))
                 ELSE None

\* <IpAddr as FromStr>::from_str(..).ok()
parse_ip(tok) ==
    LET v4 == parse_ipv4(tok)
    IN  IF v4.some THEN v4 ELSE parse_ipv6(tok)

\* <IpAddr as Display>: dotted decimal; groups in hex with the first longest
\* run of two or more zero groups written "::"
ip_to_string(ip) ==
    IF ip.v = 4
    THEN join([i \in 1..4 |-> number_text(ip.segs[i], 10)], ".")
    ELSE LET run(i)  == Max({n \in 0..(9 - i) : \A k \in i..(i + n - 1) : ip.segs[k] = 0})
             longest == Max({run(i) : i \in 1..8})
             start   == Min({i \in 1..8 : run(i) = longest})
             text(a, b) == join([i \in 1..(b - a + 1) |-> number_text(ip.segs[a + i - 1], 16)], ":")
         IN  IF longest > 1
             THEN text(1, start - 1) \o <<":", ":">> \o text(start + longest, 8)
             ELSE text(1, 8)

is_valid_ip(ip_str) == parse_ip(ip_str).some

----------------------------------------------------------------------------
(* config.rs: HostEntry *)

HostEntry(ip, hostname, comment) ==
    [ip |-> ip, hostname |-> hostname, comment |-> comment]

HostEntry_new(ip, hostname) == HostEntry(ip, hostname, None)

with_comment(entry, comment) == [entry EXCEPT !.comment = Some(comment)]

\* a serialization that writes the comment mark for every entry
to_line_AlwaysComment(entry) ==
    ip_to_string(entry.ip) \o <<" ">> \o entry.hostname \o <<" ", "#", " ">>
    \o (IF entry.comment.some THEN entry.comment.val ELSE <<>>)

to_line(entry) ==
    IF entry.comment.some
    THEN ip_to_string(entry.ip) \o <<" ">> \o entry.hostname
         \o <<" ", "#", " ">> \o entry.comment.val
    ELSE ip_to_string(entry.ip) \o <<" ">> \o entry.hostname

----------------------------------------------------------------------------
(* hosts.rs: the line codec, the split and the validation *)

NoEntry == [some |-> FALSE, val |-> HostEntry(V4(0, 0, 0, 0), <<>>, None)]

\* a parse that takes the comment as it stands after the mark
parse_hosts_line_NoTrim(raw) ==
    LET line == trim(raw)
    IN  IF line = <<>> \/ starts_with(line, "#") THEN NoEntry
        ELSE LET pos     == find(line, "#")
                 content == IF pos > 0 THEN SubSeq(line, 1, pos - 1) ELSE line
                 comment == IF pos > 0
                            THEN Some(SubSeq(line, pos + 1, Len(line)))
                            ELSE None
                 parts   == split_whitespace(content)
             IN  IF Len(parts) < 2 THEN NoEntry
                 ELSE LET ip == parse_ip(parts[1])
                      IN  IF ~ip.some THEN NoEntry
                          ELSE Some(HostEntry(ip.val, parts[2], comment))

\* a parse that refuses a line with more than two tokens
parse_hosts_line_TwoTokens(raw) ==
    LET line == trim(raw)
    IN  IF line = <<>> \/ starts_with(line, "#") THEN NoEntry
        ELSE LET pos     == find(line, "#")
                 content == IF pos > 0 THEN SubSeq(line, 1, pos - 1) ELSE line
                 comment == IF pos > 0
                            THEN Some(trim(SubSeq(line, pos + 1, Len(line))))
                            ELSE None
                 parts   == split_whitespace(content)
             IN  IF Len(parts) # 2 THEN NoEntry
                 ELSE LET ip == parse_ip(parts[1])
                      IN  IF ~ip.some THEN NoEntry
                          ELSE Some(HostEntry(ip.val, parts[2], comment))

\* a parse that keeps the last hostname of a line
parse_hosts_line_LastHostname(raw) ==
    LET line == trim(raw)
    IN  IF line = <<>> \/ starts_with(line, "#") THEN NoEntry
        ELSE LET pos     == find(line, "#")
                 content == IF pos > 0 THEN SubSeq(line, 1, pos - 1) ELSE line
                 comment == IF pos > 0
                            THEN Some(trim(SubSeq(line, pos + 1, Len(line))))
                            ELSE None
                 parts   == split_whitespace(content)
             IN  IF Len(parts) < 2 THEN NoEntry
                 ELSE LET ip == parse_ip(parts[1])
                      IN  IF ~ip.some THEN NoEntry
                          ELSE Some(HostEntry(ip.val, parts[Len(parts)], comment))

\* a parser that takes an empty comment for no comment
parse_hosts_line_EmptyIsNone(raw) ==
    LET line == trim(raw)
    IN  IF line = <<>> \/ starts_with(line, "#") THEN NoEntry
        ELSE LET pos     == find(line, "#")
                 content == IF pos > 0 THEN SubSeq(line, 1, pos - 1) ELSE line
                 text    == IF pos > 0 THEN trim(SubSeq(line, pos + 1, Len(line))) ELSE <<>>
                 comment == IF text # <<>> THEN Some(text) ELSE None
                 parts   == split_whitespace(content)
             IN  IF Len(parts) < 2 THEN NoEntry
                 ELSE LET ip == parse_ip(parts[1])
                      IN  IF ~ip.some THEN NoEntry
                          ELSE Some(HostEntry(ip.val, parts[2], comment))

parse_hosts_line(raw) ==
    LET line == trim(raw)
    IN  IF line = <<>> \/ starts_with(line, "#") THEN NoEntry
        ELSE LET pos     == find(line, "#")
                 content == IF pos > 0 THEN SubSeq(line, 1, pos - 1) ELSE line
                 comment == IF pos > 0
                            THEN Some(trim(SubSeq(line, pos + 1, Len(line))))
                            ELSE None
                 parts   == split_whitespace(content)
             IN  IF Len(parts) < 2 THEN NoEntry
                 ELSE LET ip == parse_ip(parts[1])
                      IN  IF ~ip.some THEN NoEntry
                          ELSE Some(HostEntry(ip.val, parts[2], comment))

\* "hostctl managed entries"
MarkerText ==
    <<"h", "o", "s", "t", "c", "t", "l", " ",
      "m", "a", "n", "a", "g", "e", "d", " ",
      "e", "n", "t", "r", "i", "e", "s">>

\* "\n# ===== hostctl managed entries =====\n"
Separator ==
    <<"\n", "#", " ", "=", "=", "=", "=", "=", " ">> \o MarkerText
    \o <<" ", "=", "=", "=", "=", "=", "\n">>

\* a scan in which every marker line switches the section
RECURSIVE separate_loop_Toggle(_, _, _, _)
separate_loop_Toggle(ls, in_managed_section, system_entries, managed_entries) ==
    IF ls = <<>>
    THEN [system_entries |-> system_entries, managed_entries |-> managed_entries]
    ELSE LET line == Head(ls)
         IN  IF contains(line, MarkerText)
             THEN separate_loop_Toggle(Tail(ls), ~in_managed_section, system_entries, managed_entries)
             ELSE LET entry == parse_hosts_line(line)
                  IN  IF ~entry.some
                      THEN separate_loop_Toggle(Tail(ls), in_managed_section,
                                         system_entries, managed_entries)
                      ELSE IF in_managed_section
                      THEN separate_loop_Toggle(Tail(ls), in_managed_section,
                                         system_entries, Append(managed_entries, entry.val))
                      ELSE separate_loop_Toggle(Tail(ls), in_managed_section,
                                         Append(system_entries, entry.val), managed_entries)

\* a scan that takes a line for the marker only when it is no entry
RECURSIVE separate_loop_WholeLine(_, _, _, _)
separate_loop_WholeLine(ls, in_managed_section, system_entries, managed_entries) ==
    IF ls = <<>>
    THEN [system_entries |-> system_entries, managed_entries |-> managed_entries]
    ELSE LET line  == Head(ls)
             entry == parse_hosts_line(line)
         IN  IF contains(line, MarkerText) /\ ~entry.some
             THEN separate_loop_WholeLine(Tail(ls), TRUE, system_entries, managed_entries)
             ELSE IF ~entry.some
                  THEN separate_loop_WholeLine(Tail(ls), in_managed_section,
                                               system_entries, managed_entries)
                  ELSE IF in_managed_section
                  THEN separate_loop_WholeLine(Tail(ls), in_managed_section,
                                     system_entries, Append(managed_entries, entry.val))
                  ELSE separate_loop_WholeLine(Tail(ls), in_managed_section,
                                     Append(system_entries, entry.val), managed_entries)

RECURSIVE separate_loop(_, _, _, _)
separate_loop(ls, in_managed_section, system_entries, managed_entries) ==
    IF ls = <<>>
    THEN [system_entries |-> system_entries, managed_entries |-> managed_entries]
    ELSE LET line == Head(ls)
         IN  IF contains(line, MarkerText)
             THEN separate_loop(Tail(ls), TRUE, system_entries, managed_entries)
             ELSE LET entry == parse_hosts_line(line)
                  IN  IF ~entry.some
                      THEN separate_loop(Tail(ls), in_managed_section,
                                         system_entries, managed_entries)
                      ELSE IF in_managed_section
                      THEN separate_loop(Tail(ls), in_managed_section,
                                         system_entries, Append(managed_entries, entry.val))
                      ELSE separate_loop(Tail(ls), in_managed_section,
                                         Append(system_entries, entry.val), managed_entries)

separate_entries(content) == separate_loop(lines(content), FALSE, <<>>, <<>>)

\* MaxHostnameLen: hostname.len() > 253; MaxLabelLen: label.len() > 63
MaxHostnameLen == 253
MaxLabelLen == 63

label_ok(label) ==
    /\ ~(label = <<>> \/ Len(label) > MaxLabelLen)
    /\ ~(starts_with(label, "-") \/ ends_with(label, "-"))
    /\ \A i \in 1..Len(label) : label[i] \in Alphanumeric \/ label[i] = "-"

\* a validation whose length limits are off by one
is_valid_hostname_OffByOne(hostname) ==
    IF hostname = <<>> \/ Len(hostname) >= MaxHostnameLen THEN FALSE
    ELSE LET labels == split(hostname, ".")
         IN  \A i \in 1..Len(labels) : label_ok(labels[i])

is_valid_hostname(hostname) ==
    IF hostname = <<>> \/ Len(hostname) > MaxHostnameLen THEN FALSE
    ELSE LET labels == split(hostname, ".")
         IN  \A i \in 1..Len(labels) : label_ok(labels[i])

----------------------------------------------------------------------------
(* config.rs: Environment and Config *)

Environment(name, description, entries) ==
    [name |-> name, description |-> description, entries |-> entries]

Environment_new(name) == Environment(name, None, <<>>)

with_description(env, description) == [env EXCEPT !.description = Some(description)]

\* an add_entry that keeps hostnames unique: an entry whose hostname is taken is
\* not added
Environment_add_entry_Unique(env, entry) ==
    IF \E i \in 1..Len(env.entries) : env.entries[i].hostname = entry.hostname
    THEN env
    ELSE [env EXCEPT !.entries = Append(@, entry)]

\* Environment::add_entry
Environment_add_entry(env, entry) ==
    [env EXCEPT !.entries = Append(@, entry)]

\* Vec::remove(pos)
vec_remove(v, pos) == SubSeq(v, 1, pos - 1) \o SubSeq(v, pos + 1, Len(v))

\* Iterator::position: 1-based, 0 for None
position(entries, hostname) ==
    LET at == {i \in 1..Len(entries) : entries[i].hostname = hostname}
    IN  IF at = {} THEN 0 ELSE Min(at)

\* a removal of every entry of that hostname (Vec::retain)
Environment_remove_entry_All(env, hostname) ==
    LET keep == {i \in 1..Len(env.entries) : env.entries[i].hostname # hostname}
        kept[i \in 0..Len(env.entries)] ==
            IF i = 0 THEN <<>>
            ELSE IF i \in keep THEN Append(kept[i - 1], env.entries[i]) ELSE kept[i - 1]
    IN  [env |-> [env EXCEPT !.entries = kept[Len(env.entries)]],
         ret |-> Len(kept[Len(env.entries)]) < Len(env.entries)]

\* Environment::remove_entry: the environment afterwards and the returned bool
Environment_remove_entry(env, hostname) ==
    LET pos == position(env.entries, hostname)
    IN  IF pos > 0
        THEN [env |-> [env EXCEPT !.entries = vec_remove(@, pos)], ret |-> TRUE]
        ELSE [env |-> env, ret |-> FALSE]

\* a lookup that returns the last entry of that hostname
Environment_find_entry_Last(env, hostname) ==
    LET at == {i \in 1..Len(env.entries) : env.entries[i].hostname = hostname}
    IN  IF at = {} THEN None ELSE Some(env.entries[Max(at)])

\* Environment::find_entry
Environment_find_entry(env, hostname) ==
    LET pos == position(env.entries, hostname)
    IN  IF pos > 0 THEN Some(env.entries[pos]) ELSE None

\* HashMap::new
EmptyMap == [n \in {} |-> Environment_new(<<>>)]

\* Config::new
Config_new == [current_environment |-> None, environments |-> EmptyMap]

\* an insertion that keeps an environment already stored under the name
Config_add_environment_KeepExisting(cfg, env) ==
    [cfg EXCEPT !.environments =
        [n \in (DOMAIN @) \cup {env.name} |-> IF n \in DOMAIN @ THEN @[n] ELSE env]]

\* Config::add_environment (HashMap::insert)
Config_add_environment(cfg, env) ==
    [cfg EXCEPT !.environments =
        [n \in (DOMAIN @) \cup {env.name} |-> IF n = env.name THEN env ELSE @[n]]]

\* a removal that leaves current_environment as it is
Config_remove_environment_KeepCurrent(cfg, name) ==
    [config |-> [cfg EXCEPT !.environments =
                    [n \in (DOMAIN cfg.environments) \ {name} |-> cfg.environments[n]]],
     ret |-> name \in DOMAIN cfg.environments]

\* Config::remove_environment: the configuration afterwards and the returned bool
Config_remove_environment(cfg, name) ==
    LET removed == name \in DOMAIN cfg.environments
        envs    == [n \in (DOMAIN cfg.environments) \ {name} |-> cfg.environments[n]]
    IN  [config |-> [current_environment |->
                        IF removed /\ cfg.current_environment = Some(name)
                        THEN None ELSE cfg.current_environment,
                     environments |-> envs],
         ret |-> removed]

\* Config::get_environment
get_environment(cfg, name) ==
    IF name \in DOMAIN cfg.environments THEN Some(cfg.environments[name]) ELSE None

----------------------------------------------------------------------------
(* hosts.rs: apply_environment, one step per file operation *)

\* the file name hosts.backup.YYYYMMDD_HHMMSS is decided by the second
backup_path(now) == now

RECURSIVE entry_lines(_)
entry_lines(entries) ==
    IF entries = <<>> THEN <<>>
    ELSE to_line(Head(entries)) \o <<"\n">> \o entry_lines(Tail(entries))

\* a rebuild that forgets the empty line and the separator
new_content_NoSeparator(current_content, env) ==
    entry_lines(separate_entries(current_content).system_entries)
    \o entry_lines(env.entries)

\* a rebuild that emits the separator without the empty line before it
new_content_NoBlankLine(current_content, env) ==
    entry_lines(separate_entries(current_content).system_entries)
    \o Tail(Separator)
    \o entry_lines(env.entries)

\* a rebuild that keeps the previously managed entries in front of the new ones
new_content_KeepManaged(current_content, env) ==
    entry_lines(separate_entries(current_content).system_entries)
    \o Separator
    \o entry_lines(separate_entries(current_content).managed_entries)
    \o entry_lines(env.entries)

\* steps Split and Rebuild: the new content from the content read and the target
new_content(current_content, env) ==
    entry_lines(separate_entries(current_content).system_entries)
    \o Separator
    \o entry_lines(env.entries)

Idle == [name |-> <<>>, config |-> Config_new, env |-> Environment_new(<<>>),
         new_content |-> <<>>]

NoResult == [op |-> "none", name |-> <<>>, hostname |-> <<>>, ok |-> TRUE,
             error |-> "", ret |-> FALSE, before |-> Config_new,
             entry |-> NoEntry.val, env |-> Environment_new(<<>>), found |-> NoEntry,
             line |-> <<>>,
             separated |-> [system_entries |-> <<>>, managed_entries |-> <<>>]]

Ok(op, name) == [NoResult EXCEPT !.op = op, !.name = name]
Err(op, name, error) == [NoResult EXCEPT !.op = op, !.name = name, !.ok = FALSE,
                                         !.error = error]

NoHist == [name |-> <<>>, steps |-> <<>>, backup_path |-> -1, backup_content |-> <<>>,
           replaced |-> <<>>, external |-> FALSE,
           read_content |-> <<>>, external_at |-> -1, external_content |-> <<>>]

Step(step, ok) == [step |-> step, ok |-> ok]

\* ConfigStorage::load_config / save_config: the whole Config is read / written
load_config == config

\* a switch that applies without validating the entries
switch_environment_NoValidation(name) ==
    /\ pc = "idle"
    /\ LET cfg == load_config
           env == get_environment(cfg, name)
       IN  IF ~env.some
           THEN /\ result' = Err("switch", name, "not found")
                /\ UNCHANGED <<pc, local, hist>>
           ELSE /\ pc' = "backup"
                /\ local' = [Idle EXCEPT !.name = name, !.config = cfg, !.env = env.val]
                /\ hist' = [NoHist EXCEPT !.name = name]
                /\ result' = NoResult
    /\ UNCHANGED <<config, hosts, backups, clock, original>>

\* main.rs switch_environment up to the call of apply_environment:
\* load, lookup, the validation of every entry's hostname
switch_environment(name) ==
    /\ pc = "idle"
    /\ LET cfg == load_config
           env == get_environment(cfg, name)
       IN  IF ~env.some
           THEN /\ result' = Err("switch", name, "not found")
                /\ UNCHANGED <<pc, local, hist>>
           ELSE IF \E i \in 1..Len(env.val.entries) :
                       ~is_valid_hostname(env.val.entries[i].hostname)
           THEN /\ result' = Err("switch", name, "invalid hostname")
                /\ hist' = [NoHist EXCEPT !.name = name]
                /\ UNCHANGED <<pc, local>>
           ELSE /\ pc' = "backup"
                /\ local' = [Idle EXCEPT !.name = name, !.config = cfg, !.env = env.val]
                /\ hist' = [NoHist EXCEPT !.name = name]
                /\ result' = NoResult
    /\ UNCHANGED <<config, hosts, backups, clock, original>>

\* a backup step that reports success without having copied the file
BackupOk_NoCopy ==
    /\ pc = "backup"
    /\ hist' = [hist EXCEPT !.steps = Append(@, Step("backup", TRUE)),
                            !.backup_path = backup_path(clock),
                            !.backup_content = hosts]
    /\ pc' = "read"
    /\ UNCHANGED <<config, hosts, backups, clock, local, result, original>>

\* backup_hosts_file: fs::copy(path, backup_path) succeeds
BackupOk ==
    /\ pc = "backup"
    /\ backups' = [p \in (DOMAIN backups) \cup {backup_path(clock)} |->
                      IF p = backup_path(clock) THEN hosts ELSE backups[p]]
    /\ hist' = [hist EXCEPT !.steps = Append(@, Step("backup", TRUE)),
                            !.backup_path = backup_path(clock),
                            !.backup_content = hosts]
    /\ pc' = "read"
    /\ UNCHANGED <<config, hosts, clock, local, result, original>>

\* a failed backup whose error is dropped: the apply goes on
BackupFail_Ignored ==
    /\ pc = "backup"
    /\ hist' = [hist EXCEPT !.steps = Append(@, Step("backup", FALSE))]
    /\ pc' = "read"
    /\ UNCHANGED <<config, hosts, backups, clock, local, result, original>>

\* backup_hosts_file: fs::copy fails, the ? of apply_environment returns the error
BackupFail ==
    /\ pc = "backup"
    /\ hist' = [hist EXCEPT !.steps = Append(@, Step("backup", FALSE))]
    /\ result' = Err("switch", local.name, "Failed to create backup")
    /\ pc' = "idle"
    /\ local' = Idle
    /\ UNCHANGED <<config, hosts, backups, clock, original>>

\* fs::read_to_string succeeds; the split and the rebuild follow in memory
ReadOk ==
    /\ pc = "read"
    /\ local' = [local EXCEPT !.new_content = new_content(hosts, local.env)]
    /\ hist' = [hist EXCEPT !.steps = Append(@, Step("read", TRUE)),
                            !.read_content = hosts]
    /\ pc' = "write"
    /\ UNCHANGED <<config, hosts, backups, clock, result, original>>

\* a failed read that is tried again
ReadFail_Retry ==
    /\ pc = "read"
    /\ hist' = [hist EXCEPT !.steps = Append(@, Step("read", FALSE))]
    /\ UNCHANGED <<config, hosts, backups, clock, pc, local, result, original>>

\* fs::read_to_string fails
ReadFail ==
    /\ pc = "read"
    /\ hist' = [hist EXCEPT !.steps = Append(@, Step("read", FALSE))]
    /\ result' = Err("switch", local.name, "Failed to read hosts file")
    /\ pc' = "idle"
    /\ local' = Idle
    /\ UNCHANGED <<config, hosts, backups, clock, original>>

\* a write step that reads the hosts file again and rebuilds from what it finds
WriteOk_Reread ==
    /\ pc = "write"
    /\ hosts' = new_content(hosts, local.env)
    /\ hist' = [hist EXCEPT !.steps = Append(@, Step("write", TRUE)),
                            !.replaced = hosts]
    /\ local' = [local EXCEPT !.config.current_environment = Some(local.name)]
    /\ pc' = "save"
    /\ UNCHANGED <<config, backups, clock, result, original>>

\* fs::write succeeds; switch_environment then sets current_environment
WriteOk ==
    /\ pc = "write"
    /\ hosts' = local.new_content
    /\ hist' = [hist EXCEPT !.steps = Append(@, Step("write", TRUE)),
                            !.replaced = hosts]
    /\ local' = [local EXCEPT !.config.current_environment = Some(local.name)]
    /\ pc' = "save"
    /\ UNCHANGED <<config, backups, clock, result, original>>

\* a failed write after which the switch goes on to save the configuration
WriteFail_Ignored ==
    /\ pc = "write"
    /\ hosts' \in {hosts, <<>>}
    /\ hist' = [hist EXCEPT !.steps = Append(@, Step("write", FALSE)),
                            !.replaced = hosts]
    /\ local' = [local EXCEPT !.config.current_environment = Some(local.name)]
    /\ pc' = "save"
    /\ UNCHANGED <<config, backups, clock, result, original>>

\* fs::write fails: the file could not be opened (it is left as it was), or it
\* was opened, which truncates it, and the write failed
WriteFail ==
    /\ pc = "write"
    /\ hosts' \in {hosts, <<>>}
    /\ hist' = [hist EXCEPT !.steps = Append(@, Step("write", FALSE)),
                            !.replaced = hosts]
    /\ result' = Err("switch", local.name, "Failed to write hosts file")
    /\ pc' = "idle"
    /\ local' = Idle
    /\ UNCHANGED <<config, backups, clock, original>>

\* ConfigStorage::save_config at the end of switch_environment
SaveOk ==
    /\ pc = "save"
    /\ config' = local.config
    /\ hist' = [hist EXCEPT !.steps = Append(@, Step("save", TRUE))]
    /\ result' = Ok("switch", local.name)
    /\ pc' = "idle"
    /\ local' = Idle
    /\ UNCHANGED <<hosts, backups, clock, original>>

SaveFail ==
    /\ pc = "save"
    /\ hist' = [hist EXCEPT !.steps = Append(@, Step("save", FALSE))]
    /\ result' = Err("switch", local.name, "Failed to write config file")
    /\ pc' = "idle"
    /\ local' = Idle
    /\ UNCHANGED <<config, hosts, backups, clock, original>>

----------------------------------------------------------------------------
(* the environment of the program: other writers of the hosts file, time *)

MaxClock == 1

Tick ==
    /\ clock < MaxClock
    /\ clock' = clock + 1
    /\ UNCHANGED <<config, hosts, backups, pc, local, result, hist, original>>

\* another process replaces the hosts file (no lock is taken by apply)
ExternalWrite(content) ==
    /\ hosts # content
    /\ hosts' = content
    /\ hist' = [hist EXCEPT !.external = TRUE,
                            !.external_at = Len(hist.steps),
                            !.external_content = content]
    /\ UNCHANGED <<config, backups, clock, pc, local, result, original>>

----------------------------------------------------------------------------
(* inputs *)

NL == <<"\n">>

Dev == <<"d", "e", "v">>
Prod == <<"p", "r", "o", "d">>
Bad == <<"b", "a", "d">>
Missing == <<"q", "a">>

EntryA == HostEntry(Ip4, <<"a">>, None)                            \* 1.1.1.1 a
EntryB == HostEntry(Ip1, <<"b", ".", "c">>, Some(<<"c">>))         \* ::1 b.c # c
EntryP == HostEntry(Ip2, <<"p">>, Some(<<>>))                      \* ::2 p #
EntryWs == HostEntry(Ip2, <<"a">>, Some(<<" ", "c">>))             \* comment " c"
EntryNl == HostEntry(Ip1, <<"a">>, Some(<<"c", "\n">> \o ip_to_string(Ip2) \o <<" ", "x">>))
EntryMk == HostEntry(Ip4, <<"b">>, Some(MarkerText))               \* comment is the marker text
EntryBad == HostEntry(Ip2, <<"-", "x">>, None)                     \* hostname "-x" is invalid
\* comment "c\n# ===== hostctl managed entries =====": a line break, then the separator line
EntrySep == HostEntry(Ip2, <<"s">>, Some(<<"c">> \o SubSeq(Separator, 1, Len(Separator) - 1)))

\* lines a hosts file is made of
LinePlain == ip_to_string(Ip4) \o <<" ", "a">>                              \* 1.1.1.1 a
LineComment == ip_to_string(Ip1) \o <<" ", "b", " ", "#", " ", "c">>        \* ::1 b # c
LineAlias == Ip1Long \o <<"\t", "b", " ", "a", " ", "#">>          \* 0::1<TAB>b a #
LineNote == <<"#", " ", "x">>                                      \* # x
LineNotIp == <<"x", " ", "a">>                                     \* x a
LineMarker == MarkerText                                           \* hostctl managed entries
LineMarkedEntry == ip_to_string(Ip2) \o <<" ", "a", " ", "#">> \o MarkerText   \* ::2 a #hostctl...

\* (an empty line is in every file an apply has written: the one before the
\* separator line)
LinePool == {LinePlain, LineComment, LineAlias, LineNote, LineNotIp, LineMarker,
             LineMarkedEntry}

SeqsUpTo(S, n) == UNION {[1..k -> S] : k \in 0..n}

RECURSIVE file_of(_)
file_of(ls) == IF ls = <<>> THEN <<>> ELSE Head(ls) \o NL \o file_of(Tail(ls))

\* the hosts files of the pipeline specification
FileA == file_of(<<LinePlain>>)
FileB == file_of(<<LineAlias, LineNote>>) \o Separator \o file_of(<<LineComment>>)
FileX == file_of(<<LineComment, LinePlain>>)

ConfigOf(dev, prod, bad) ==
    Config_add_environment(
        Config_add_environment(
            Config_add_environment(Config_new, Environment(Dev, None, dev)),
            Environment(Prod, Some(<<"p">>), prod)),
        Environment(Bad, None, bad))

----------------------------------------------------------------------------
(* Spec: the switch command step by step, with failing file operations,    *)
(* other writers of the hosts file and the clock                           *)

Init ==
    /\ config = ConfigOf(<<EntryA, EntryB>>, <<EntryP>>, <<EntryA, EntryBad>>)
    /\ hosts \in {FileA, FileB}
    /\ original = hosts
    /\ backups = [p \in {} |-> <<>>]
    /\ clock = 0
    /\ pc = "idle"
    /\ local = Idle
    /\ result = NoResult
    /\ hist = NoHist

Next ==
    \/ \E name \in {Dev, Prod, Bad, Missing} : switch_environment(name)
    \/ BackupOk
    \/ BackupFail
    \/ ReadOk
    \/ ReadFail
    \/ WriteOk
    \/ WriteFail
    \/ SaveOk
    \/ SaveFail
    \/ Tick
    \/ ExternalWrite(FileX)

Spec == Init /\ [][Next]_vars

----------------------------------------------------------------------------
(* SpecContent: successful applies only and no other writer, over many      *)
(* hosts files and many environments                                        *)

MaxLines == 3
MaxEntries == 2

EntryPool == {EntryA, EntryB, EntryWs, EntryNl, EntryMk, EntrySep}

InitContent ==
    /\ \/ /\ hosts \in {file_of(ls) : ls \in SeqsUpTo(LinePool, MaxLines)}
          /\ config = ConfigOf(<<EntryA, EntryB>>, <<EntryP>>, <<EntryBad>>)
       \/ /\ hosts \in {FileA, FileB}
          /\ \E dev \in SeqsUpTo(EntryPool, MaxEntries) :
                config = ConfigOf(dev, <<EntryP>>, <<EntryBad>>)
    /\ original = hosts
    /\ backups = [p \in {} |-> <<>>]
    /\ clock = 0
    /\ pc = "idle"
    /\ local = Idle
    /\ result = NoResult
    /\ hist = NoHist

NextContent ==
    \/ \E name \in {Dev, Prod} : switch_environment(name)
    \/ BackupOk
    \/ ReadOk
    \/ WriteOk
    \/ SaveOk

SpecContent == InitContent /\ [][NextContent]_vars

----------------------------------------------------------------------------
(* main.rs: the commands that edit the configuration.  Each loads the       *)
(* configuration, changes it in memory and saves it; saved says whether     *)
(* save_config succeeded.                                                   *)

\* at most this many entries per environment are added through the commands
MaxCliEntries == 1

Saved(op, name, hostname, cfg, saved) ==
    /\ config' = IF saved THEN cfg ELSE config
    /\ result' = [NoResult EXCEPT !.op = op, !.name = name,
                                  !.ok = saved,
                                  !.error = IF saved THEN "" ELSE "Failed to write config file"]

Refused(op, name, hostname, error) ==
    /\ config' = config
    /\ result' = [NoResult EXCEPT !.op = op, !.name = name,
                                  !.ok = FALSE, !.error = error]

\* main.rs show_environment: prints, or fails when the name is not found
show_environment(name) ==
    /\ pc = "idle"
    /\ LET cfg == load_config
       IN  IF get_environment(cfg, name).some
           THEN result' = Ok("show", name)
           ELSE result' = Err("show", name, "not found")
    /\ UNCHANGED <<config, hosts, backups, clock, pc, local, hist, original>>

\* an add that stores the new environment over one of the same name
add_environment_Overwrite(name, description, saved) ==
    /\ pc = "idle"
    /\ LET cfg == load_config
       IN  IF ~is_valid_hostname(name)
           THEN Refused("add", name, <<>>, "Invalid environment name")
           ELSE LET env == IF description.some
                           THEN with_description(Environment_new(name), description.val)
                           ELSE Environment_new(name)
                IN  Saved("add", name, <<>>, Config_add_environment(cfg, env), saved)
    /\ UNCHANGED <<hosts, backups, clock, pc, local, hist, original>>

\* main.rs add_environment
add_environment(name, description, saved) ==
    /\ pc = "idle"
    /\ LET cfg == load_config
       IN  IF ~is_valid_hostname(name)
           THEN Refused("add", name, <<>>, "Invalid environment name")
           ELSE IF get_environment(cfg, name).some
           THEN Refused("add", name, <<>>, "already exists")
           ELSE LET env == IF description.some
                           THEN with_description(Environment_new(name), description.val)
                           ELSE Environment_new(name)
                IN  Saved("add", name, <<>>, Config_add_environment(cfg, env), saved)
    /\ UNCHANGED <<hosts, backups, clock, pc, local, hist, original>>

\* main.rs remove_environment
remove_environment(name, saved) ==
    /\ pc = "idle"
    /\ LET cfg == load_config
           r   == Config_remove_environment(cfg, name)
       IN  IF r.ret
           THEN Saved("remove", name, <<>>, r.config, saved)
           ELSE Refused("remove", name, <<>>, "not found")
    /\ UNCHANGED <<hosts, backups, clock, pc, local, hist, original>>

\* an add-entry that takes the hostname as it is given
add_entry_NoValidation(environment, ip, hostname, comment, saved) ==
    /\ pc = "idle"
    /\ LET cfg     == load_config
           ip_addr == parse_ip(ip)
       IN  IF ~ip_addr.some
           THEN Refused("add-entry", environment, hostname, "Invalid IP address")
           ELSE IF environment \notin DOMAIN cfg.environments
           THEN Refused("add-entry", environment, hostname, "not found")
           ELSE /\ Len(cfg.environments[environment].entries) < MaxCliEntries
                /\ Saved("add-entry", environment, hostname,
                         [cfg EXCEPT !.environments[environment] =
                             Environment_add_entry(@, HostEntry_new(ip_addr.val, hostname))],
                         saved)
    /\ UNCHANGED <<hosts, backups, clock, pc, local, hist, original>>

\* an add-entry that creates the environment when there is none of that name
add_entry_CreateMissing(environment, ip, hostname, comment, saved) ==
    /\ pc = "idle"
    /\ LET cfg     == load_config
           ip_addr == parse_ip(ip)
       IN  IF ~ip_addr.some
           THEN Refused("add-entry", environment, hostname, "Invalid IP address")
           ELSE IF ~is_valid_hostname(hostname)
           THEN Refused("add-entry", environment, hostname, "Invalid hostname")
           ELSE LET had == IF environment \in DOMAIN cfg.environments
                           THEN cfg
                           ELSE Config_add_environment(cfg, Environment_new(environment))
                IN  /\ Len(had.environments[environment].entries) < MaxCliEntries
                    /\ Saved("add-entry", environment, hostname,
                             [had EXCEPT !.environments[environment] =
                                 Environment_add_entry(@, HostEntry_new(ip_addr.val, hostname))],
                             saved)
    /\ UNCHANGED <<hosts, backups, clock, pc, local, hist, original>>

\* main.rs add_entry
add_entry(environment, ip, hostname, comment, saved) ==
    /\ pc = "idle"
    /\ LET cfg     == load_config
           ip_addr == parse_ip(ip)
       IN  IF ~ip_addr.some
           THEN Refused("add-entry", environment, hostname, "Invalid IP address")
           ELSE IF ~is_valid_hostname(hostname)
           THEN Refused("add-entry", environment, hostname, "Invalid hostname")
           ELSE IF environment \notin DOMAIN cfg.environments
           THEN Refused("add-entry", environment, hostname, "not found")
           ELSE LET entry == IF comment.some
                             THEN with_comment(HostEntry_new(ip_addr.val, hostname), comment.val)
                             ELSE HostEntry_new(ip_addr.val, hostname)
                IN  /\ Len(cfg.environments[environment].entries) < MaxCliEntries
                    /\ Saved("add-entry", environment, hostname,
                             [cfg EXCEPT !.environments[environment] =
                                 Environment_add_entry(@, entry)],
                             saved)
    /\ UNCHANGED <<hosts, backups, clock, pc, local, hist, original>>

\* main.rs remove_entry
remove_entry(environment, hostname, saved) ==
    /\ pc = "idle"
    /\ LET cfg == load_config
       IN  IF environment \notin DOMAIN cfg.environments
           THEN Refused("remove-entry", environment, hostname, "not found")
           ELSE LET r == Environment_remove_entry(cfg.environments[environment], hostname)
                IN  IF r.ret
                    THEN Saved("remove-entry", environment, hostname,
                               [cfg EXCEPT !.environments[environment] = r.env], saved)
                    ELSE Refused("remove-entry", environment, hostname, "entry not found")
    /\ UNCHANGED <<hosts, backups, clock, pc, local, hist, original>>

----------------------------------------------------------------------------
(* SpecCli: the commands, from the empty configuration *)

InvalidName == <<"-", "x">>
NotAnIp == <<"x">>

CliNames == {Dev, Prod, InvalidName}
CliIps == {Ip1Long, NotAnIp}
CliHostnames == {<<"a">>, InvalidName}
CliComments == {None}

InitCli ==
    /\ config = Config_new
    /\ hosts = FileB
    /\ original = hosts
    /\ backups = [p \in {} |-> <<>>]
    /\ clock = 0
    /\ pc = "idle"
    /\ local = Idle
    /\ result = NoResult
    /\ hist = NoHist

NextCli ==
    \/ \E name \in CliNames, description \in {None}, saved \in BOOLEAN :
          add_environment(name, description, saved)
    \/ \E name \in CliNames, saved \in BOOLEAN : remove_environment(name, saved)
    \/ \E environment \in {Dev, Prod}, ip \in CliIps, hostname \in CliHostnames,
          comment \in CliComments, saved \in BOOLEAN :
          add_entry(environment, ip, hostname, comment, saved)
    \/ \E environment \in {Dev, Prod}, hostname \in CliHostnames, saved \in BOOLEAN :
          remove_entry(environment, hostname, saved)
    \/ \E name \in CliNames : switch_environment(name)
    \/ \E name \in {Dev} : show_environment(name)
    \/ BackupOk
    \/ BackupFail
    \/ ReadOk
    \/ ReadFail
    \/ WriteOk
    \/ WriteFail
    \/ SaveOk
    \/ SaveFail

SpecCli == InitCli /\ [][NextCli]_vars

----------------------------------------------------------------------------
(* SpecModel: the operations of config.rs applied to configurations drawn   *)
(* from a bounded set; result keeps the arguments, the returned value and   *)
(* the configuration before the call                                        *)

EntryA2 == HostEntry(Ip1, <<"a">>, Some(<<"c">>))     \* the hostname of EntryA again

ModelEntries == {EntryA, EntryA2, EntryB}
ModelNames == {Dev, Prod, Missing}
ModelHostnames == {<<"a">>, <<"b", ".", "c">>, <<"b">>}

ModelEnvironments(names) ==
    [names -> SeqsUpTo(ModelEntries, MaxEntries)]

ModelConfigs ==
    {[current_environment |-> cur,
      environments |-> [n \in DOMAIN es |-> Environment(n, None, es[n])]] :
        cur \in {None} \cup {Some(n) : n \in ModelNames},
        es \in UNION {ModelEnvironments(names) : names \in SUBSET {Dev, Prod}}}

InitModel ==
    /\ config \in ModelConfigs
    /\ hosts = <<>>
    /\ original = <<>>
    /\ backups = [p \in {} |-> <<>>]
    /\ clock = 0
    /\ pc = "idle"
    /\ local = Idle
    /\ result = NoResult
    /\ hist = NoHist

Returned(op, name, hostname, ret) ==
    result' = [NoResult EXCEPT !.op = op, !.name = name, !.hostname = hostname,
                               !.ret = ret, !.before = config]

\* config.remove_environment(name)
call_remove_environment(name) ==
    /\ LET r == Config_remove_environment(config, name)
       IN  /\ config' = r.config
           /\ Returned("remove_environment", name, <<>>, r.ret)
    /\ UNCHANGED <<hosts, backups, clock, pc, local, hist, original>>

\* config.get_environment_mut(name).unwrap().remove_entry(hostname)
call_remove_entry(name, hostname) ==
    /\ name \in DOMAIN config.environments
    /\ LET r == Environment_remove_entry(config.environments[name], hostname)
       IN  /\ config' = [config EXCEPT !.environments[name] = r.env]
           /\ Returned("remove_entry", name, hostname, r.ret)
    /\ UNCHANGED <<hosts, backups, clock, pc, local, hist, original>>

\* config.get_environment(name).unwrap().find_entry(hostname)
call_find_entry(name, hostname) ==
    /\ name \in DOMAIN config.environments
    /\ result' = [NoResult EXCEPT
                     !.op = "find_entry", !.name = name, !.hostname = hostname,
                     !.before = config,
                     !.found = Environment_find_entry(config.environments[name], hostname)]
    /\ UNCHANGED <<config, hosts, backups, clock, pc, local, hist, original>>

\* config.get_environment_mut(name).unwrap().add_entry(entry)
call_add_entry(name, entry) ==
    /\ name \in DOMAIN config.environments
    /\ Len(config.environments[name].entries) < MaxEntries
    /\ config' = [config EXCEPT !.environments[name] = Environment_add_entry(@, entry)]
    /\ result' = [NoResult EXCEPT !.op = "add_entry", !.name = name,
                                  !.hostname = entry.hostname, !.entry = entry,
                                  !.before = config]
    /\ UNCHANGED <<hosts, backups, clock, pc, local, hist, original>>

\* config.add_environment(env)
call_add_environment(env) ==
    /\ config' = Config_add_environment(config, env)
    /\ result' = [NoResult EXCEPT !.op = "add_environment", !.name = env.name,
                                  !.env = env, !.before = config]
    /\ UNCHANGED <<hosts, backups, clock, pc, local, hist, original>>

\* the environments handed to add_environment
ModelNewEnvironments ==
    {Environment(Dev, Some(<<"p">>), <<EntryB>>), Environment_new(Prod)}

NextModel ==
    \/ \E name \in ModelNames : call_remove_environment(name)
    \/ \E name \in ModelNames, hostname \in ModelHostnames :
          call_remove_entry(name, hostname)
    \/ \E name \in ModelNames, hostname \in ModelHostnames :
          call_find_entry(name, hostname)
    \/ \E name \in ModelNames, entry \in ModelEntries : call_add_entry(name, entry)
    \/ \E env \in ModelNewEnvironments : call_add_environment(env)

SpecModel == InitModel /\ [][NextModel]_vars

----------------------------------------------------------------------------
(* SpecCodec: the pure functions of the line codec and of the validation,   *)
(* each applied to an argument drawn from a bounded set; a line written by  *)
(* to_line is read back by parse_hosts_line.  local holds the arguments.    *)

MaxPieces == 6
MaxCommentLen == 3
MaxNameLen == 4

CodecArgs(entry, line, hostname) == [entry |-> entry, line |-> line, hostname |-> hostname]

\* entry.to_line()
call_to_line ==
    /\ pc = "to_line"
    /\ local' = [local EXCEPT !.line = to_line(local.entry)]
    /\ result' = [NoResult EXCEPT !.op = "to_line", !.entry = local.entry,
                                  !.line = to_line(local.entry)]
    /\ hist' = [hist EXCEPT !.steps = Append(@, Step("to_line", TRUE))]
    /\ pc' = "parse_hosts_line"
    /\ UNCHANGED <<config, hosts, backups, clock, original>>

\* HostsManager::parse_hosts_line(line)
call_parse_hosts_line ==
    /\ pc = "parse_hosts_line"
    /\ result' = [result EXCEPT !.op = "parse_hosts_line", !.line = local.line,
                                !.found = parse_hosts_line(local.line)]
    /\ hist' = [hist EXCEPT !.steps = Append(@, Step("parse_hosts_line", TRUE))]
    /\ pc' = "done"
    /\ UNCHANGED <<config, hosts, backups, clock, local, original>>

\* HostsManager::is_valid_hostname(hostname)
call_is_valid_hostname ==
    /\ pc = "is_valid_hostname"
    /\ result' = [NoResult EXCEPT !.op = "is_valid_hostname", !.hostname = local.hostname,
                                  !.ret = is_valid_hostname(local.hostname)]
    /\ hist' = [hist EXCEPT !.steps = Append(@, Step("is_valid_hostname", TRUE))]
    /\ pc' = "done"
    /\ UNCHANGED <<config, hosts, backups, clock, local, original>>

\* HostsManager::separate_entries(content), on the content of the hosts file
call_separate_entries ==
    /\ pc = "separate_entries"
    /\ result' = [NoResult EXCEPT !.op = "separate_entries",
                                  !.separated = separate_entries(hosts)]
    /\ hist' = [hist EXCEPT !.steps = Append(@, Step("separate_entries", TRUE))]
    /\ pc' = "done"
    /\ UNCHANGED <<config, hosts, backups, clock, local, original>>

\* every text of up to n pieces taken from a set of texts
RECURSIVE TextsUpTo(_, _)
TextsUpTo(pieces, n) ==
    IF n = 0 THEN {<<>>}
    ELSE LET shorter == TextsUpTo(pieces, n - 1)
         IN  shorter \cup {t \o piece : t \in shorter, piece \in pieces}

RECURSIVE Repeat(_, _)
Repeat(c, n) == IF n = 0 THEN <<>> ELSE <<c>> \o Repeat(c, n - 1)

\* a name of n characters: labels of the greatest length and a shorter last one
RECURSIVE LongName(_)
LongName(n) ==
    IF n <= MaxLabelLen THEN Repeat("a", n)
    ELSE Repeat("a", MaxLabelLen) \o <<".">> \o LongName(n - MaxLabelLen - 1)

IpMixed == V6(<<1, 0, 0, 2, 0, 0, 0, 255>>)      \* 1:0:0:2::ff
IpOctets == V4(255, 0, 10, 127)                  \* 255.0.10.127

LineTabs == <<"\t">> \o ip_to_string(Ip1) \o <<"\t", "x", "\r">>
LineIpOnly == ip_to_string(Ip4)
LineBadHost == ip_to_string(IpOctets) \o <<" ", "-", "x", "_">>
LineAliases == ip_to_string(IpMixed) \o <<" ", "h", "1", " ", "h", "2", " ", "#", " ", "c">>

\* the lines handed to parse_hosts_line: every text of up to MaxPieces pieces
\* out of an address, a word, a space and the comment mark, and lines with
\* other whitespace, other addresses and hostnames that are no hostnames
CodecLines ==
    TextsUpTo({ip_to_string(Ip1), <<"x">>, <<" ">>, <<"#">>}, MaxPieces)
    \cup LinePool \cup {LineTabs, LineIpOnly, LineBadHost, LineAliases}

CodecComments ==
    TextsUpTo({<<"c">>, <<" ">>, <<"#">>, <<"\n">>}, MaxCommentLen) \cup {MarkerText}

CodecEntries ==
    {HostEntry(ip, hostname, comment) :
        ip \in IpAddrs \cup {IpMixed, IpOctets},
        hostname \in {<<"a">>, <<"b", ".", "c">>, <<"a", "-", "1">>, <<"-", "x">>,
                      <<"a", " ", "b">>, <<"a", "#">>, <<>>},
        comment \in {None} \cup {Some(c) : c \in CodecComments}}

\* the names handed to is_valid_hostname: every text of up to MaxNameLen
\* characters out of a letter, a digit, "-", ".", " " and "_", and names around
\* the two length limits
CodecHostnames ==
    TextsUpTo({<<"a">>, <<"1">>, <<"-">>, <<".">>, <<" ">>, <<"_">>}, MaxNameLen)
    \cup {LongName(n) : n \in (MaxHostnameLen - 1)..(MaxHostnameLen + 1)}
    \cup {Repeat("a", n) : n \in (MaxLabelLen - 1)..(MaxLabelLen + 1)}
    \cup {Repeat("a", MaxLabelLen + 1) \o <<".", "a">>,
          <<"a", ".">> \o Repeat("a", MaxLabelLen + 1)}

\* the contents handed to separate_entries: every file of up to MaxLines
\* lines out of the pool, an empty line and lines that to_line writes
CodecContents ==
    {file_of(ls) : ls \in SeqsUpTo(LinePool \cup {<<>>, to_line(EntryMk), to_line(EntryP)},
                                    MaxLines)}

InitCodec ==
    /\ \/ /\ pc = "to_line"
          /\ \E entry \in CodecEntries : local = CodecArgs(entry, <<>>, <<>>)
          /\ hosts = <<>>
       \/ /\ pc = "parse_hosts_line"
          /\ \E line \in CodecLines : local = CodecArgs(NoEntry.val, line, <<>>)
          /\ hosts = <<>>
       \/ /\ pc = "is_valid_hostname"
          /\ \E hostname \in CodecHostnames : local = CodecArgs(NoEntry.val, <<>>, hostname)
          /\ hosts = <<>>
       \/ /\ pc = "separate_entries"
          /\ local = CodecArgs(NoEntry.val, <<>>, <<>>)
          /\ hosts \in CodecContents
    /\ config = Config_new
    /\ original = hosts
    /\ backups = [p \in {} |-> <<>>]
    /\ clock = 0
    /\ result = NoResult
    /\ hist = NoHist

NextCodec ==
    \/ call_to_line
    \/ call_parse_hosts_line
    \/ call_is_valid_hostname
    \/ call_separate_entries

SpecCodec == InitCodec /\ [][NextCodec]_vars

----------------------------------------------------------------------------
(* properties of the apply pipeline (Spec) *)

HasInvalidHostname(cfg, name) ==
    /\ name \in DOMAIN cfg.environments
    /\ \E i \in 1..Len(cfg.environments[name].entries) :
           ~is_valid_hostname(cfg.environments[name].entries[i].hostname)

StepsOf(step) == {i \in 1..Len(hist.steps) : hist.steps[i].step = step}
Failed(step) == \E i \in StepsOf(step) : ~hist.steps[i].ok
Succeeded(step) == \E i \in StepsOf(step) : hist.steps[i].ok

\* C1: a switch to an environment that has an entry with an invalid hostname is
\* rejected in the step that starts it: that step returns an error, creates no
\* backup file and does not write the hosts file, and no step of the apply
\* (backup, read, write) is ever taken for it.
C1_InvalidHostnameRejected ==
    /\ [][\A name \in DOMAIN config.environments :
            (switch_environment(name) /\ HasInvalidHostname(config, name))
            => (/\ pc' = "idle"
                /\ ~result'.ok
                /\ backups' = backups
                /\ hosts' = hosts)]_vars
    /\ [](HasInvalidHostname(config, hist.name) => (hist.steps = <<>> /\ pc = "idle"))

C1_Witness ==
    /\ pc = "idle"
    /\ result.op = "switch" /\ result.error = "invalid hostname" /\ result.name = Bad
    /\ hist.name = Bad /\ hist.steps = <<>>

\* C2: in the step in which the backup fails the apply ends with an error and
\* the hosts file keeps its content; no read and no write follows the failed
\* backup.
C2_BackupFailureAborts ==
    /\ [][BackupFail => (pc' = "idle" /\ ~result'.ok /\ hosts' = hosts)]_vars
    /\ [](Failed("backup") =>
            (hist.steps = <<Step("backup", FALSE)>> /\ pc = "idle" /\ ~result.ok))

C2_Witness ==
    /\ Failed("backup") /\ pc = "idle"
    /\ result.error = "Failed to create backup"
    /\ hosts = original

\* C3: a write step of an apply comes after the successful backup step of the
\* same apply, and when no other process wrote the hosts file since the apply
\* started, the backup file holds the content the write step replaced.
C3_BackupBeforeWrite ==
    /\ \A i \in StepsOf("write") :
           \E j \in 1..(i - 1) : hist.steps[j] = Step("backup", TRUE)
    /\ (StepsOf("write") # {} /\ ~hist.external) =>
           (/\ hist.backup_path \in DOMAIN backups
            /\ backups[hist.backup_path] = hist.replaced)

C3_Witness ==
    /\ Succeeded("write") /\ ~hist.external
    /\ hist.replaced = FileB /\ hosts # FileB

\* C4: each of backup, read and write is attempted at most once per apply, a
\* failed step is the last step of its apply and ends it with an error, and
\* after a read or write failure the backup file of the apply still exists
\* with the content it was created with.
C4_NoRetryNoRollback ==
    /\ \A step \in {"backup", "read", "write"} : Cardinality(StepsOf(step)) <= 1
    /\ \A i \in 1..Len(hist.steps) :
           ~hist.steps[i].ok => (i = Len(hist.steps) /\ pc = "idle" /\ ~result.ok)
    /\ (Failed("read") \/ Failed("write")) =>
           (/\ hist.steps[1] = Step("backup", TRUE)
            /\ hist.backup_path \in DOMAIN backups
            /\ backups[hist.backup_path] = hist.backup_content)

C4_Witness ==
    /\ hist.steps = <<Step("backup", TRUE), Step("read", TRUE), Step("write", FALSE)>>
    /\ pc = "idle" /\ ~result.ok
    /\ backups[hist.backup_path] = original /\ hosts = <<>>

----------------------------------------------------------------------------
(* properties of the content written (SpecContent) *)

\* the entries that parse from a sequence of lines, in order
RECURSIVE EntriesOf(_)
EntriesOf(ls) ==
    IF ls = <<>> THEN <<>>
    ELSE LET e == parse_hosts_line(Head(ls))
         IN  (IF e.some THEN <<e.val>> ELSE <<>>) \o EntriesOf(Tail(ls))

MarkerLines(content) ==
    LET ls == lines(content)
    IN  {i \in 1..Len(ls) : contains(ls[i], MarkerText)}

\* the entries of the lines before the first marker line (all lines if none)
ForeignOf(content) ==
    LET ls == lines(content)
        m  == MarkerLines(content)
    IN  EntriesOf(IF m = {} THEN ls ELSE SubSeq(ls, 1, Min(m) - 1))

\* the entries of the lines after the first marker line that are no marker lines
ManagedOf(content) ==
    LET ls == lines(content)
        m  == MarkerLines(content)
        after == IF m = {} THEN {} ELSE {i \in (Min(m) + 1)..Len(ls) : i \notin m}
        pick[i \in 0..Len(ls)] ==
            IF i = 0 THEN <<>>
            ELSE IF i \in after THEN Append(pick[i - 1], ls[i]) ELSE pick[i - 1]
    IN  EntriesOf(pick[Len(ls)])

\* the environment the current/last apply is about
Target == config.environments[hist.name]

\* C5: whatever environments were applied so far, the entries before the first
\* marker line of the hosts file are the entries that parse from the lines
\* before the first marker line of the original file: same ip, hostname and
\* comment, same order.
C5_ForeignPreserved == ForeignOf(hosts) = ForeignOf(original)

C5_Witness ==
    /\ pc = "idle" /\ result.ok /\ result.op = "switch"
    /\ hist.replaced # original /\ hosts # hist.replaced
    /\ Len(ForeignOf(original)) = 2
    /\ ForeignOf(original)[1].comment # ForeignOf(original)[2].comment

\* a comment that a line of the hosts file gives back as it is: no line break,
\* no marker text, no whitespace at either end
PlainComment(c) ==
    /\ trim(c) = c
    /\ find(c, "\n") = 0
    /\ ~contains(c, MarkerText)

PlainComments(entries) ==
    \A i \in 1..Len(entries) : entries[i].comment.some => PlainComment(entries[i].comment.val)

\* the text after the first marker line
AfterSeparator(content) ==
    LET at == {i \in 1..Len(content) :
                  /\ i + Len(Separator) - 1 <= Len(content)
                  /\ SubSeq(content, i, i + Len(Separator) - 1) = Separator}
    IN  SubSeq(content, Min(at) + Len(Separator), Len(content))

\* C6 as stated: after a successful apply of E the entries after the separator
\* line are exactly E's entries in E's order.
C6_ManagedIsTarget ==
    Succeeded("write") => ManagedOf(hosts) = Target.entries

\* What holds instead: after a successful apply of E the text after the
\* separator line is exactly to_line of E's entries, one per line in E's order
\* (nothing of the previously managed section remains), and the entries after
\* the separator line are exactly E's entries when every comment of E is free
\* of line breaks, of the marker text and of leading and trailing whitespace.
ManagedRewritten ==
    Succeeded("write") =>
        /\ AfterSeparator(hosts)
              = concat([i \in 1..Len(Target.entries) |-> to_line(Target.entries[i]) \o NL])
        /\ PlainComments(Target.entries) => ManagedOf(hosts) = Target.entries

ManagedRewritten_Witness ==
    /\ Succeeded("write") /\ pc = "idle"
    /\ hist.name = Prod
    /\ ManagedOf(hist.replaced) = <<EntryA, EntryB>>
    /\ ManagedOf(hosts) = <<EntryP>>

\* "# ===== hostctl managed entries ====="
SeparatorLine ==
    <<"#", " ", "=", "=", "=", "=", "=", " ",
      "h", "o", "s", "t", "c", "t", "l", " ", "m", "a", "n", "a", "g", "e", "d", " ",
      "e", "n", "t", "r", "i", "e", "s", " ", "=", "=", "=", "=", "=">>

Serialized(entries) == concat([i \in 1..Len(entries) |-> to_line(entries[i]) \o NL])

\* C7: the content a successful apply writes is to_line of each foreign entry of
\* the replaced content with a newline, an empty line, the separator line with
\* a newline, then to_line of each entry of the target with a newline; for a
\* target without entries the content ends with the separator line.
C7_ContentWritten ==
    Succeeded("write") =>
        /\ hosts = Serialized(ForeignOf(hist.replaced)) \o NL \o SeparatorLine \o NL
                    \o Serialized(Target.entries)
        /\ Target.entries = <<>> =>
              SubSeq(hosts, Len(hosts) - Len(SeparatorLine), Len(hosts)) = SeparatorLine \o NL

C7_Witness ==
    /\ Succeeded("write")
    /\ Len(ForeignOf(hist.replaced)) = 2
    /\ Len(Target.entries) = 2
    /\ Target.entries[1] # Target.entries[2]

C7_WitnessEmpty ==
    /\ Succeeded("write")
    /\ Target.entries = <<>>
    /\ ManagedOf(hist.replaced) # <<>>

----------------------------------------------------------------------------
(* properties of the configuration (SpecCli) *)

\* C8: in every configuration the commands add, remove, add-entry,
\* remove-entry and switch produce from the empty one, with or without success,
\* a current_environment that is Some(name) names a key of environments.
C8_CurrentExists ==
    config.current_environment.some =>
        config.current_environment.val \in DOMAIN config.environments

\* the last switch made Dev the current environment, and Dev was removed since
C8_Witness ==
    /\ result.op = "remove" /\ result.ok /\ result.name = Dev
    /\ hist.name = Dev /\ Succeeded("save")
    /\ config.current_environment = None
    /\ DOMAIN config.environments = {Prod}

----------------------------------------------------------------------------
(* properties of the operations of config.rs (SpecModel) *)

\* C9: remove_environment(name) returns true iff name was a key before the
\* call; afterwards the keys are the keys before without name and every other
\* environment is as it was; current_environment is None when the removed name
\* was the current one and is unchanged otherwise (name not current, or absent).
C9_RemoveEnvironment ==
    result.op = "remove_environment" =>
        LET before == result.before
            name   == result.name
            was    == name \in DOMAIN before.environments
        IN  /\ result.ret = was
            /\ DOMAIN config.environments = (DOMAIN before.environments) \ {name}
            /\ \A n \in DOMAIN config.environments :
                   config.environments[n] = before.environments[n]
            /\ (was /\ before.current_environment = Some(name))
                   => config.current_environment = None
            /\ ~(was /\ before.current_environment = Some(name))
                   => config.current_environment = before.current_environment

C9_Witness ==
    /\ result.op = "remove_environment" /\ result.ret
    /\ result.before.current_environment = Some(result.name)
    /\ config.current_environment = None
    /\ DOMAIN config.environments # {}

C11_FindEntry ==
    result.op = "find_entry" =>
        LET entries == result.before.environments[result.name].entries
            same    == {i \in 1..Len(entries) : entries[i].hostname = result.hostname}
        IN  /\ result.found.some <=> same # {}
            /\ same # {} => result.found.val = entries[Min(same)]
            /\ config = result.before

\* two entries of the hostname looked up, the first one is returned
C11_Witness ==
    /\ result.op = "find_entry" /\ result.hostname = <<"a">>
    /\ config.environments[result.name].entries = <<EntryA2, EntryA>>
    /\ result.found = Some(EntryA2)

\* a hostname that is a prefix of an entry's hostname finds nothing
C11_WitnessNone ==
    /\ result.op = "find_entry" /\ result.hostname = <<"b">>
    /\ config.environments[result.name].entries = <<EntryB>>
    /\ ~result.found.some

\* C12: add_entry(entry) makes the entries the entries before followed by the
\* new entry, one longer, also when an entry of the same hostname was there;
\* name and description of the environment, the other environments and
\* current_environment are as before.
C12_AddEntry ==
    result.op = "add_entry" =>
        LET old == result.before.environments[result.name]
            new == config.environments[result.name]
        IN  /\ new.entries = Append(old.entries, result.entry)
            /\ Len(new.entries) = Len(old.entries) + 1
            /\ SubSeq(new.entries, 1, Len(old.entries)) = old.entries
            /\ new.name = old.name /\ new.description = old.description
            /\ DOMAIN config.environments = DOMAIN result.before.environments
            /\ \A n \in DOMAIN config.environments :
                   n # result.name => config.environments[n] = result.before.environments[n]
            /\ config.current_environment = result.before.current_environment

\* an entry added to an environment that has an entry of the same hostname
C12_Witness ==
    /\ result.op = "add_entry" /\ result.entry = EntryA2
    /\ result.before.environments[result.name].entries = <<EntryA>>
    /\ config.environments[result.name].entries = <<EntryA, EntryA2>>

\* C13: add_environment(env) stores env under env.name, in place of whatever
\* was stored under that name; the other environments and current_environment
\* are as before, and there is one environment more exactly when the name was
\* not a key before.
C13_AddEnvironment ==
    result.op = "add_environment" =>
        LET before == result.before
            env    == result.env
        IN  /\ DOMAIN config.environments = (DOMAIN before.environments) \cup {env.name}
            /\ config.environments[env.name] = env
            /\ \A n \in DOMAIN before.environments :
                   n # env.name => config.environments[n] = before.environments[n]
            /\ config.current_environment = before.current_environment
            /\ (Cardinality(DOMAIN config.environments)
                    = Cardinality(DOMAIN before.environments) + 1)
               <=> env.name \notin DOMAIN before.environments
            /\ env.name \in DOMAIN before.environments =>
                   Cardinality(DOMAIN config.environments)
                       = Cardinality(DOMAIN before.environments)

\* an environment with two entries is replaced by one with another entry and a
\* description, while it is the current one
C13_Witness ==
    /\ result.op = "add_environment" /\ result.name = Dev
    /\ Dev \in DOMAIN result.before.environments
    /\ result.before.environments[Dev] = Environment(Dev, None, <<EntryA, EntryA2>>)
    /\ result.before.current_environment = Some(Dev)
    /\ config.environments[Dev] = Environment(Dev, Some(<<"p">>), <<EntryB>>)
    /\ config.current_environment = Some(Dev)

\* a new name: one environment more
C13_WitnessNew ==
    /\ result.op = "add_environment" /\ result.name = Prod
    /\ DOMAIN result.before.environments = {Dev}
    /\ DOMAIN config.environments = {Dev, Prod}

----------------------------------------------------------------------------
(* properties of the line codec and of the validation (SpecCodec) *)

\* a line was written by to_line and read back by parse_hosts_line
RoundTrip ==
    hist.steps = <<Step("to_line", TRUE), Step("parse_hosts_line", TRUE)>>

\* C14: for an entry with a valid hostname and no comment, parse_hosts_line of
\* its to_line yields an entry with the same ip and the same hostname and with
\* no comment.
C14_RoundTripNoComment ==
    (RoundTrip /\ is_valid_hostname(result.entry.hostname) /\ ~result.entry.comment.some) =>
        /\ result.found.some
        /\ result.found.val.ip = result.entry.ip
        /\ result.found.val.hostname = result.entry.hostname
        /\ result.found.val.comment = None

C14_Witness ==
    /\ RoundTrip
    /\ result.entry = HostEntry(IpMixed, <<"b", ".", "c">>, None)
    /\ result.line = ip_to_string(IpMixed) \o <<" ", "b", ".", "c">>
    /\ result.found = Some(result.entry)

C15_WitnessLossy ==
    /\ RoundTrip
    /\ result.entry = HostEntry(Ip1, <<"a">>, Some(<<" ", "c">>))
    /\ result.found = Some(HostEntry(Ip1, <<"a">>, Some(<<"c">>)))

\* the k-th element of a set of numbers, in increasing order
Nth(S, k) == CHOOSE x \in S : Cardinality({y \in S : y < x}) = k - 1

\* the maximal runs of characters of s that are no whitespace, in order
TokensOf(s) ==
    LET starts == {i \in 1..Len(s) : s[i] \notin Whitespace
                                     /\ (i = 1 \/ s[i - 1] \in Whitespace)}
        ends   == {i \in 1..Len(s) : s[i] \notin Whitespace
                                     /\ (i = Len(s) \/ s[i + 1] \in Whitespace)}
    IN  [k \in 1..Cardinality(starts) |-> SubSeq(s, Nth(starts, k), Nth(ends, k))]

\* the part of a line before its first "#"
BeforeMark(line) ==
    IF \E i \in 1..Len(line) : line[i] = "#"
    THEN SubSeq(line, 1, Min({i \in 1..Len(line) : line[i] = "#"}) - 1)
    ELSE line

\* C16: parse_hosts_line yields nothing exactly when the line has no character
\* other than whitespace, or its first such character is "#", or the part
\* before the first "#" has fewer than two tokens, or the first token is not
\* the text of an IP address; otherwise it yields an entry whose ip is the
\* address the first token spells and whose hostname is the second token as it
\* stands.
C16_ParseLine ==
    result.op = "parse_hosts_line" =>
        LET line    == result.line
            nonws   == {i \in 1..Len(line) : line[i] \notin Whitespace}
            toks    == TokensOf(BeforeMark(line))
            nothing == \/ nonws = {}
                       \/ line[Min(nonws)] = "#"
                       \/ Len(toks) < 2
                       \/ ~is_valid_ip(toks[1])
        IN  /\ ~result.found.some <=> nothing
            /\ ~nothing => /\ result.found.val.ip = parse_ip(toks[1]).val
                           /\ result.found.val.hostname = toks[2]

\* a second token that is no hostname is taken as the hostname
C16_Witness ==
    /\ result.op = "parse_hosts_line" /\ result.line = LineBadHost
    /\ result.found = Some(HostEntry(IpOctets, <<"-", "x", "_">>, None))

\* a line of a single token, an address, yields nothing
C16_WitnessSingleToken ==
    /\ result.op = "parse_hosts_line" /\ result.line = LineIpOnly
    /\ ~result.found.some

C19_WitnessTooLong ==
    /\ result.op = "is_valid_hostname" /\ ~result.ret
    /\ result.hostname = LongName(MaxHostnameLen + 1)

C19_WitnessLabelTooLong ==
    /\ result.op = "is_valid_hostname" /\ ~result.ret
    /\ result.hostname = Repeat("a", MaxLabelLen + 1)

C19_WitnessDots ==
    /\ result.op = "is_valid_hostname" /\ ~result.ret
    /\ result.hostname \in {<<".", "a">>, <<"a", ".">>, <<"a", ".", ".", "a">>}

C19_WitnessCharacters ==
    /\ result.op = "is_valid_hostname" /\ ~result.ret
    /\ result.hostname \in {<<"a", " ", "a">>, <<"a", "_", "a">>}

----------------------------------------------------------------------------
(* properties of the split of the hosts file (SpecContent) *)

\* parse_hosts_line of every line of a sequence of lines
ParsedLines(ls) == [i \in 1..Len(ls) |-> parse_hosts_line(ls[i])]

\* the lines that contain the marker text: the marker lines
MarkerLinesOf(ls) == {i \in 1..Len(ls) : contains(ls[i], MarkerText)}

\* the lines that parse as an entry and stand before the first marker line
ForeignLines(parsed, markers) ==
    {i \in DOMAIN parsed : parsed[i].some /\ \A j \in markers : i < j}

\* the lines that parse as an entry, stand after the first marker line and are
\* no marker lines themselves
ManagedLines(parsed, markers) ==
    {i \in DOMAIN parsed : parsed[i].some /\ i \notin markers /\ \E j \in markers : j < i}

\* C17: for a line with more than two tokens before the comment whose first
\* token is an address, parse_hosts_line yields the second token as hostname
\* and nothing of the later tokens; and when such a line is a foreign line of
\* the original hosts file, then after a successful apply the line that stands
\* for it is "<ip> <second token>" with the comment if there was one: two
\* tokens, the aliases are gone.
C17_AliasesDropped ==
    LET ls      == lines(original)
        parsed  == ParsedLines(ls)
        foreign == ForeignLines(parsed, MarkerLinesOf(ls))
        now     == lines(hosts)
    IN  \A i \in 1..Len(ls) :
            LET toks == TokensOf(BeforeMark(ls[i]))
                e    == parsed[i]
                k    == Cardinality({j \in foreign : j <= i})
            IN  (Len(toks) > 2 /\ e.some) =>
                    /\ e.val.hostname = toks[2]
                    /\ (Succeeded("write") /\ i \in foreign) =>
                          /\ now[k] = to_line(e.val)
                          /\ TokensOf(BeforeMark(now[k]))
                                = <<ip_to_string(e.val.ip), toks[2]>>

\* the line "0::1<TAB>b a #" of the original file is now "::1 b # "
C17_Witness ==
    /\ Succeeded("write") /\ pc = "idle"
    /\ lines(original) # <<>>
    /\ lines(original)[1] = LineAlias
    /\ lines(hosts)[1] = ip_to_string(Ip1) \o <<" ", "b", " ", "#", " ">>

\* C18: separate_entries puts the entries of the lines that parse and stand
\* before the first marker line into system_entries, in the order of the
\* lines, and the entries of the lines that parse and stand after the first
\* marker line into managed_entries, in the order of the lines; a marker line
\* is never taken as an entry, lines that do not parse are left out; for a
\* content without marker line every parsed entry is in system_entries and
\* managed_entries is empty.
C18_SeparateEntries ==
    LET ls      == lines(hosts)
        r       == separate_entries(hosts)
        parsed  == ParsedLines(ls)
        markers == MarkerLinesOf(ls)
        foreign == ForeignLines(parsed, markers)
        managed == ManagedLines(parsed, markers)
    IN  /\ r.system_entries
              = [k \in 1..Cardinality(foreign) |-> parsed[Nth(foreign, k)].val]
        /\ r.managed_entries
              = [k \in 1..Cardinality(managed) |-> parsed[Nth(managed, k)].val]
        /\ markers = {} =>
              /\ r.managed_entries = <<>>
              /\ Len(r.system_entries)
                    = Cardinality({i \in 1..Len(ls) : parsed[i].some})

\* the content just read by an apply has two foreign entries, the separator
\* line and two managed entries
C18_Witness ==
    /\ pc = "write"
    /\ Len(separate_entries(hosts).system_entries) = 2
    /\ separate_entries(hosts).system_entries[1] # separate_entries(hosts).system_entries[2]
    /\ separate_entries(hosts).managed_entries = <<EntryA, EntryB>>

\* the content just read by an apply has no marker line and lines that do not
\* parse
C18_WitnessNoMarker ==
    /\ pc = "write"
    /\ MarkerLines(hosts) = {}
    /\ Len(lines(hosts)) = 3
    /\ Len(separate_entries(hosts).system_entries) = 1
    /\ separate_entries(hosts).managed_entries = <<>>

----------------------------------------------------------------------------
(* the hosts file is shared with other writers (Spec) *)

\* the last write of another process came after the read step of the apply and
\* before its write step, and the write step succeeded
WrittenBetweenReadAndWrite ==
    /\ Len(hist.steps) >= 3
    /\ hist.steps[1] = Step("backup", TRUE)
    /\ hist.steps[2] = Step("read", TRUE)
    /\ hist.steps[3] = Step("write", TRUE)
    /\ hist.external_at = 2

\* C20: nothing keeps another process from writing the hosts file between the
\* read step and the write step of an apply; when that happens the write step
\* replaces what the other process wrote by the content rebuilt from what was
\* read before, and the backup file of the apply holds the content from before
\* the other process wrote.  The state in which this has happened is reachable
\* (C20_Witness): there, an entry the other process wrote is neither in the
\* hosts file nor in the backup file.
C20_LostUpdate ==
    WrittenBetweenReadAndWrite =>
        /\ hist.replaced = hist.external_content
        /\ hist.read_content # hist.external_content
        /\ hosts = new_content(hist.read_content, Target)
        /\ hist.backup_path \in DOMAIN backups
        /\ backups[hist.backup_path] = hist.backup_content
        /\ hist.backup_content # hist.external_content

C20_Witness ==
    /\ WrittenBetweenReadAndWrite /\ pc = "idle" /\ result.ok
    /\ hist.external_content = FileX
    /\ \E i \in 1..Len(lines(FileX)) :
          /\ parse_hosts_line(lines(FileX)[i]).some
          /\ \A j \in 1..Len(lines(hosts)) :
                parse_hosts_line(lines(hosts)[j]) # parse_hosts_line(lines(FileX)[i])
          /\ \A j \in 1..Len(lines(backups[hist.backup_path])) :
                parse_hosts_line(lines(backups[hist.backup_path])[j])
                    # parse_hosts_line(lines(FileX)[i])

----------------------------------------------------------------------------
(* the empty comment (SpecContent) *)

\* C23: for every line of the hosts file that parses as an entry: the comment
\* is None exactly when the line has no "#"; it is Some("") when nothing or
\* only whitespace follows the first "#"; and an entry whose comment is None or
\* Some("") comes back from parse_hosts_line of its to_line with that same
\* comment. And after every number of applies the foreign entries of the hosts
\* file have the comments None and Some("") where those of the original file
\* have them. (The hosts file is looked at between the commands: it changes
\* in the write step only and is the same until the next command.)
C23_EmptyCommentKept ==
    pc = "idle" =>
        LET ls      == lines(hosts)
            parsed  == ParsedLines(ls)
            foreign == ForeignLines(parsed, MarkerLinesOf(ls))
            was     == ForeignOf(original)
        IN  /\ \A i \in 1..Len(ls) :
                  parsed[i].some =>
                      LET pos  == find(ls[i], "#")
                          e    == parsed[i].val
                          back == parse_hosts_line(to_line(e))
                      IN  /\ (pos = 0) <=> (e.comment = None)
                          /\ (pos > 0 /\ \A j \in (pos + 1)..Len(ls[i]) : ls[i][j] \in Whitespace)
                                => e.comment = Some(<<>>)
                          /\ e.comment \in {None, Some(<<>>)}
                                => (back.some /\ back.val.comment = e.comment)
            /\ Cardinality(foreign) = Len(was)
            /\ \A k \in 1..Len(was) :
                  was[k].comment \in {None, Some(<<>>)}
                  => parsed[Nth(foreign, k)].val.comment = was[k].comment

\* the second apply or a later one has written the file; the original file is
\* "0::1<TAB>b a #" and "1.1.1.1 a", and the two foreign entries still have the
\* comments Some("") and None
C23_Witness ==
    /\ Succeeded("write") /\ pc = "idle"
    /\ hist.replaced # original
    /\ original = file_of(<<LineAlias, LinePlain>>)
    /\ Len(ForeignOf(hosts)) = 2
    /\ ForeignOf(hosts)[1].comment = Some(<<>>)
    /\ ForeignOf(hosts)[2].comment = None

----------------------------------------------------------------------------
(* repeated applies (SpecContent) *)

\* the lines of a content that are the separator line
SeparatorLines(content) ==
    LET ls == lines(content)
    IN  {i \in 1..Len(ls) : ls[i] = SeparatorLine}

\* C26 as stated: whatever was applied before, after a successful apply of E
\* the hosts file is what an apply of E to the original file writes; an apply
\* of E to it writes the same content again, so the file does not grow; and
\* exactly one line of the file is the separator line.
C26_ApplyIdempotent ==
    Succeeded("write") =>
        /\ hosts = new_content(original, Target)
        /\ new_content(hosts, Target) = hosts
        /\ Cardinality(SeparatorLines(hosts)) = 1

\* What holds instead: the content is that of a single apply of E to the
\* original file and a further apply of E writes it again; exactly one line is
\* the separator line when no comment of E has a line break, and at least one
\* in every case.
ApplyIdempotent ==
    Succeeded("write") =>
        /\ hosts = new_content(original, Target)
        /\ new_content(hosts, Target) = hosts
        /\ Cardinality(SeparatorLines(hosts)) >= 1
        /\ (\A i \in 1..Len(Target.entries) :
                Target.entries[i].comment.some
                => find(Target.entries[i].comment.val, "\n") = 0)
              => Cardinality(SeparatorLines(hosts)) = 1

\* the environment was applied to a file that an apply of another environment
\* had written, and the content is that of its apply to the original file
ApplyIdempotent_Witness ==
    /\ Succeeded("write") /\ pc = "idle"
    /\ hist.name = Dev
    /\ hist.replaced # original
    /\ ManagedOf(hist.replaced) = <<EntryP>>
    /\ original = FileB
    /\ Len(Target.entries) = 2
    /\ hosts = new_content(original, Target)

----------------------------------------------------------------------------
(* properties of the marker (SpecCodec) *)

\* a sequence of lines with line i replaced
ReplaceLine(ls, i, line) == [k \in 1..Len(ls) |-> IF k = i THEN line ELSE ls[k]]

\* the entries of the lines of a set, in the order of the lines
EntriesAt(parsed, at) == [k \in 1..Cardinality(at) |-> parsed[Nth(at, k)].val]

\* C24: for every line of the content that contains the marker text, whether
\* or not it parses as an entry: separate_entries yields what it yields when
\* the line is the bare marker text; the line gives an entry to neither
\* sequence (the two sequences together hold one entry for each parsing line
\* that is no marker line); and the entries of the lines after it that are no
\* marker lines are the last entries of managed_entries.
C24_MarkerSubstring ==
    result.op = "separate_entries" =>
        LET ls      == lines(hosts)
            r       == result.separated
            parsed  == ParsedLines(ls)
            markers == MarkerLinesOf(ls)
            entries == {i \in 1..Len(ls) : parsed[i].some /\ i \notin markers}
        IN  /\ Len(r.system_entries) + Len(r.managed_entries) = Cardinality(entries)
            /\ \A i \in markers :
                  LET after == EntriesAt(parsed, {j \in entries : j > i})
                      n     == Len(r.managed_entries)
                  IN  /\ separate_entries(file_of(ReplaceLine(ls, i, MarkerText))) = r
                      /\ Len(after) <= n
                      /\ SubSeq(r.managed_entries, n - Len(after) + 1, n) = after

\* a line that parses as an entry and contains the marker text stands between
\* two entries: the first is foreign, the second managed, its own is in neither
C24_Witness ==
    /\ result.op = "separate_entries"
    /\ lines(hosts) = <<LinePlain, LineMarkedEntry, LineComment>>
    /\ parse_hosts_line(LineMarkedEntry).some
    /\ Len(result.separated.system_entries) = 1
    /\ Len(result.separated.managed_entries) = 1

C25_WitnessBetween ==
    /\ result.op = "separate_entries"
    /\ lines(hosts) = <<LineMarker, LinePlain, LineMarkedEntry>>
    /\ result.separated.managed_entries = <<EntryA>>

----------------------------------------------------------------------------
(* properties of the commands (SpecCli) *)

\* nothing outside the command's own result changes: the saved configuration,
\* the hosts file and its backups are as before and no apply is started
NothingChanges ==
    /\ config' = config /\ hosts' = hosts /\ backups' = backups
    /\ pc' = "idle" /\ hist'.steps = hist.steps

\* the arguments <<ip, hostname>> that add-entry is to reject
RejectedArgs ==
    {args \in CliIps \X CliHostnames :
        ~is_valid_ip(args[1]) \/ ~is_valid_hostname(args[2])}

\* C21: an add-entry whose ip is not the text of an address or whose hostname
\* is not valid fails with an error in the step that runs it; the saved
\* configuration (every environment's entries), the hosts file and the backups
\* are as before.
C21_AddEntryValidates ==
    [][(pc = "idle" /\ result'.op = "add-entry") =>
          IF result'.ok
          THEN \A args \in RejectedArgs, comment \in CliComments, saved \in BOOLEAN :
                   ~add_entry(result'.name, args[1], args[2], comment, saved)
          ELSE NothingChanges]_vars

\* an invalid hostname was refused for an environment that exists and has room
C21_Witness ==
    /\ result.op = "add-entry" /\ ~result.ok /\ result.error = "Invalid hostname"
    /\ result.name \in DOMAIN config.environments
    /\ config.environments[result.name].entries = <<>>

C21_WitnessIp ==
    /\ result.op = "add-entry" /\ ~result.ok /\ result.error = "Invalid IP address"
    /\ result.name \in DOMAIN config.environments

\* C22: switch, show, remove, add-entry and remove-entry on a name that is no
\* environment, and remove-entry on a hostname that no entry of the environment
\* has, fail with an error; the saved configuration, the hosts file and the
\* backups are as before and no step of an apply is taken. (The step of a
\* command is told by the result it leaves: a command that succeeds names an
\* environment of the configuration, a switch that starts an apply likewise,
\* and a command refused for a failed lookup changes nothing.)
C22_LookupFailure ==
    [][pc = "idle" =>
          IF ~result'.ok
          THEN result'.error \in {"not found", "entry not found"} => NothingChanges
          ELSE IF pc' = "backup"
          THEN hist'.name \in DOMAIN config.environments
          ELSE IF result'.op \in {"show", "remove", "add-entry", "remove-entry"}
          THEN /\ result'.name \in DOMAIN config.environments
               /\ result'.op = "remove-entry" =>
                     \A hostname \in CliHostnames, saved \in BOOLEAN :
                        (\A i \in 1..Len(config.environments[result'.name].entries) :
                            config.environments[result'.name].entries[i].hostname # hostname)
                        => ~remove_entry(result'.name, hostname, saved)
          ELSE TRUE]_vars

\* a valid entry was refused because the environment does not exist, while
\* another environment does
C22_Witness ==
    /\ result.op = "add-entry" /\ ~result.ok /\ result.error = "not found"
    /\ result.name \notin DOMAIN config.environments
    /\ config.environments # EmptyMap

C22_WitnessEntry ==
    /\ result.op = "remove-entry" /\ ~result.ok /\ result.error = "entry not found"
    /\ result.name \in DOMAIN config.environments

C22_WitnessSwitch ==
    /\ result.op = "switch" /\ ~result.ok /\ result.error = "not found"
    /\ backups = [p \in {} |-> <<>>] /\ hosts = original

C22_WitnessShow ==
    /\ result.op = "show" /\ ~result.ok /\ result.error = "not found"

\* C28: in every configuration the commands produce from the empty one, every
\* key of environments and every environment's name is a valid name and every
\* entry's hostname is a valid hostname; and no switch is rejected for an
\* invalid hostname.
C28_ValidByConstruction ==
    /\ \A n \in DOMAIN config.environments :
          /\ is_valid_hostname(n)
          /\ config.environments[n].name = n
          /\ \A i \in 1..Len(config.environments[n].entries) :
                is_valid_hostname(config.environments[n].entries[i].hostname)
    /\ result.error # "invalid hostname"

\* an invalid hostname and an invalid name were offered and an environment
\* with an entry was switched to
C28_Witness ==
    /\ result.op = "switch" /\ result.ok
    /\ config.environments[result.name].entries # <<>>
    /\ Succeeded("save")

\* C30: an add with a name that is not valid or that is the name of an
\* environment fails with an error and leaves the saved configuration as it is;
\* any other add creates, when the configuration can be saved, an environment
\* of that name with the given description and without entries, and leaves the
\* other environments and current_environment as they are.
C30_AddNeverOverwrites ==
    [][(pc = "idle" /\ result'.op = "add") =>
          LET name == result'.name
          IN  IF ~is_valid_hostname(name) \/ name \in DOMAIN config.environments
              THEN ~result'.ok /\ NothingChanges
              ELSE IF ~result'.ok
              THEN config' = config
              ELSE /\ DOMAIN config'.environments = (DOMAIN config.environments) \cup {name}
                   /\ \E description \in {None} :
                         config'.environments[name] = Environment(name, description, <<>>)
                   /\ \A n \in DOMAIN config.environments :
                         config'.environments[n] = config.environments[n]
                   /\ config'.current_environment = config.current_environment]_vars

\* an add of the name of an environment that has an entry was refused
C30_Witness ==
    /\ result.op = "add" /\ ~result.ok /\ result.error = "already exists"
    /\ config.environments[result.name].entries # <<>>

C30_WitnessInvalid ==
    /\ result.op = "add" /\ ~result.ok /\ result.error = "Invalid environment name"

----------------------------------------------------------------------------
(* the order of the steps of a switch, and the backups (Spec) *)

\* C27 as stated: the saved configuration changes only in the save step of a
\* switch whose backup, read and write steps succeeded, and only in
\* current_environment, which becomes the name switched to; and at that moment
\* the entries after the first marker line of the hosts file are the entries
\* of that environment.
C27_HostsWrittenWhenSaved ==
    [][config' # config =>
          /\ pc = "save" /\ pc' = "idle"
          /\ hist.steps = <<Step("backup", TRUE), Step("read", TRUE), Step("write", TRUE)>>
          /\ hist.name \in DOMAIN config.environments
          /\ config' = [config EXCEPT !.current_environment = Some(hist.name)]
          /\ ManagedOf(hosts) = config.environments[hist.name].entries]_vars

\* C27, amended: the saved configuration changes only in the save step of a
\* switch whose backup, read and write steps succeeded, and only in
\* current_environment, which becomes the name switched to; the write step of
\* that switch has put to_line of that environment's entries after the
\* separator line, and they are there at the moment of the save unless another
\* process has written the hosts file since the write step.
C27_SavedAfterWrite ==
    [][/\ config' # config =>
            /\ pc = "save" /\ pc' = "idle"
            /\ hist.steps = <<Step("backup", TRUE), Step("read", TRUE), Step("write", TRUE)>>
            /\ hist.name \in DOMAIN config.environments
            /\ config' = [config EXCEPT !.current_environment = Some(hist.name)]
            /\ hosts' = hosts
            /\ hist.external_at < Len(hist.steps) =>
                  /\ AfterSeparator(hosts) = Serialized(config.environments[hist.name].entries)
                  /\ ManagedOf(hosts) = config.environments[hist.name].entries
       /\ (pc = "write" /\ pc' = "save") =>
            /\ contains(hosts', Separator)
            /\ AfterSeparator(hosts') = Serialized(config.environments[hist.name].entries)
            /\ config' = config]_vars

\* a switch to dev has saved current_environment, and the hosts file holds
\* dev's entries after the separator line
C27_Witness ==
    /\ pc = "idle" /\ Succeeded("save")
    /\ result.op = "switch" /\ result.ok
    /\ config.current_environment = Some(Dev)
    /\ ~hist.external
    /\ ManagedOf(hosts) = config.environments[Dev].entries

\* another process wrote the hosts file between the write and the save
C27_WitnessExternal ==
    /\ pc = "idle" /\ Succeeded("save")
    /\ config.current_environment = Some(hist.name)
    /\ hist.external_at = 3
    /\ hosts = FileX

\* a failed write left the saved configuration without current_environment
C27_WitnessFailed ==
    /\ pc = "idle" /\ Failed("write")
    /\ config.current_environment = None
    /\ hosts # original

\* C29 as stated: no step changes or removes a backup that exists, so for every
\* apply the backup taken before it stays as it was taken.
C29_BackupsKept ==
    [][\A p \in DOMAIN backups :
          p \in DOMAIN backups' /\ backups'[p] = backups[p]]_vars

\* What holds instead: a backup is changed only by the backup step of an apply
\* that starts within the second in which the backup was taken; backups taken
\* in different seconds are kept.
BackupsKeptAcrossSeconds ==
    [][\A p \in DOMAIN backups :
          /\ p \in DOMAIN backups'
          /\ backups'[p] # backups[p] => (pc = "backup" /\ p = backup_path(clock))]_vars

\* two applies in different seconds: both backups are there, the first holds
\* the original file
BackupsKeptAcrossSeconds_Witness ==
    /\ DOMAIN backups = {backup_path(0), backup_path(1)}
    /\ backups[backup_path(0)] = original
    /\ backups[backup_path(1)] # original
    /\ Succeeded("write")
====
